---- MODULE Spec2Model ----
(***************************************************************************)
(* Model of sma_cross_1.py: the SmaCross strategy run by run_backtest.     *)
(*                                                                         *)
(* The script delegates the engine to the backtrader framework; the model  *)
(* follows what the calls the script makes do in that framework with the   *)
(* settings the script leaves at their defaults:                           *)
(*   - bt.ind.SMA(period=N): NaN before the N-th bar, then the mean of the *)
(*     last N closes;                                                      *)
(*   - bt.ind.CrossOver(a, b): +1 when the last non-zero difference a - b  *)
(*     up to the previous bar was negative and a > b now, -1 in the mirror *)
(*     case, else 0; defined one bar after both inputs are;                *)
(*   - the strategy's next() runs from the first bar where all indicators  *)
(*     are defined, prenext() (a no-op) before;                            *)
(*   - self.buy / self.sell create Market orders: the broker checks them   *)
(*     and fills them when the NEXT bar arrives, at that bar's open; an    *)
(*     order the cash cannot cover gets status Margin and is dropped;      *)
(*   - setcommission(c): a percentage commission c * size * price;        *)
(*   - the default Broker observer records cash and value once per bar.    *)
(*                                                                         *)
(* Arithmetic is exact: prices are integers, the fraction to invest is     *)
(* pctNum / PctDen, the commission rate commNum / CommDen, and money is    *)
(* held in ticks of 1 / CommDen of a currency unit, so that commissions    *)
(* are integers. An average is the pair (num, den) standing for num / den. *)
(* The rounding of Python floats is not modelled.                          *)
(***************************************************************************)
EXTENDS Integers, Sequences, FiniteSets, TLC

\* ---- bounds of the model ----
MaxBars == 5
PctDen == 2
CommDen == 10

\* ---- inputs ----
Periods == { <<1, 2>>, <<2, 3>> }
PctNums == { 1, PctDen, 2 * PctDen }
CommNums == { -1, 0, 1 }
Cashes == { 2, 10 }
Closes == { 0, 1, 2, 3 }
Opens == { 1, 2, 3 }
\* (the cash that buys less than a share at some prices is run without
\* commission only)
Affordable(c) == \A p \in Closes : c >= 2 * p

VARIABLES
    params,       \* SmaCross.params (pfast, pslow, percent as pctNum / PctDen)
    commNum,      \* broker commission rate, commNum / CommDen
    startcash,    \* broker.startingcash, in currency units
    feed,         \* the data feed: free (any bars), or the closes it holds
    close,        \* data.close: the closes of the bars delivered so far
    open,         \* data.open[0]: the open of the current bar
    smaFast,      \* line of the fast SMA, one value per bar
    smaSlow,      \* line of the slow SMA
    nzd,          \* line of CrossOver's last non-zero difference
    crossover,    \* line self.crossover
    cash,         \* broker.cash, in ticks
    value,        \* broker value at the current bar's close, in ticks
    position,     \* broker position of the data: [size, price]
    orders,       \* broker.orders: every order created, with its outcome
    equityCurve,  \* the Broker observer's value line
    pc,           \* "advance" | "strategy" | "done" | "error"
    err           \* the exception that ended the run, or "none"

vars == << params, commNum, startcash, feed, close, open, smaFast, smaSlow,
           nzd, crossover, cash, value, position, orders, equityCurve, pc, err >>

\* ---- helpers ----
Max(a, b) == IF a >= b THEN a ELSE b

RECURSIVE SumRange(_, _, _)
SumRange(s, lo, hi) == IF lo > hi THEN 0 ELSE s[hi] + SumRange(s, lo, hi - 1)

NaN == [def |-> FALSE, num |-> 0, den |-> 1]

\* Python's int(): truncation toward zero of a / b, b > 0
IntTrunc(a, b) == IF a >= 0 THEN a \div b ELSE -((-a) \div b)

\* ---- indicators ----
\* an average that never evicts: the mean of the FIRST period closes
SMAFirst(period, closes) ==
    IF Len(closes) < period THEN NaN
    ELSE [def |-> TRUE, num |-> SumRange(closes, 1, period), den |-> period]

\* bt.ind.SMA(period): value at the last bar of closes
SMA(period, closes) ==
    IF Len(closes) < period THEN NaN
    ELSE [def |-> TRUE,
          num |-> SumRange(closes, Len(closes) - period + 1, Len(closes)),
          den |-> period]

\* fast - slow, scaled by the positive factor fast.den * slow.den
Diff(f, s) == f.num * s.den - s.num * f.den

\* a difference line without memory: a zero overwrites the last sign
PlainDifference(f, s, prev) ==
    IF ~(f.def /\ s.def) THEN NaN
    ELSE [def |-> TRUE, num |-> Diff(f, s), den |-> 1]

\* NonZeroDifference inside bt.ind.CrossOver: seeded with the difference on
\* the first bar where both averages exist, then d if d else the previous value
NonZeroDifference(f, s, prev) ==
    IF ~(f.def /\ s.def) THEN NaN
    ELSE IF ~prev.def THEN [def |-> TRUE, num |-> Diff(f, s), den |-> 1]
    ELSE [def |-> TRUE,
          num |-> IF Diff(f, s) # 0 THEN Diff(f, s) ELSE prev.num,
          den |-> 1]

\* an up-cross that takes a zero before it for "below"
CrossUpFromZero(f, s, prevNzd) == prevNzd.num <= 0 /\ Diff(f, s) > 0

\* a down-cross given on every bar where fast is below slow
CrossDownLevel(f, s, prevNzd) == Diff(f, s) < 0

CrossUp(f, s, prevNzd) == prevNzd.num < 0 /\ Diff(f, s) > 0
CrossDown(f, s, prevNzd) == prevNzd.num > 0 /\ Diff(f, s) < 0

\* a detector that signals the sign of the difference on the first bar where
\* both averages exist
CrossOverEager(f, s, prevNzd) ==
    IF ~(f.def /\ s.def) THEN NaN
    ELSE IF ~prevNzd.def
    THEN [def |-> TRUE,
          num |-> IF Diff(f, s) > 0 THEN 1 ELSE IF Diff(f, s) < 0 THEN -1 ELSE 0,
          den |-> 1]
    ELSE [def |-> TRUE,
          num |-> (IF CrossUp(f, s, prevNzd) THEN 1 ELSE 0)
                  - (IF CrossDown(f, s, prevNzd) THEN 1 ELSE 0),
          den |-> 1]

\* bt.ind.CrossOver(fast, slow): upcross - downcross, NaN until nzd(-1) exists
CrossOver(f, s, prevNzd) ==
    IF ~(f.def /\ s.def /\ prevNzd.def) THEN NaN
    ELSE [def |-> TRUE,
          num |-> (IF CrossUp(f, s, prevNzd) THEN 1 ELSE 0)
                  - (IF CrossDown(f, s, prevNzd) THEN 1 ELSE 0),
          den |-> 1]

\* a minimum period that waits for the fast average only
MinPeriodFast == params.pfast

\* the strategy's minimum period: SMA(pfast), SMA(pslow), and one more bar
\* for CrossOver's look at the previous bar
MinPeriod == Max(params.pfast, params.pslow) + 1

\* ---- broker ----
NoPosition == [size |-> 0, price |-> 0]

GetOperationCost(size, price) == size * price * CommDen
GetCommission(size, price) == size * price * commNum

\* a BUY that is charged no commission
CashAfterBuyFree(c, size, price) == c - GetOperationCost(size, price)

\* cash left after a BUY of size at price
CashAfterBuy(c, size, price) ==
    c - GetOperationCost(size, price) - GetCommission(size, price)

\* a SELL that adds the commission to the proceeds
CashAfterSellPlus(c, size, price) ==
    c + GetOperationCost(size, price) + GetCommission(size, price)

\* cash after a SELL closing size at price
CashAfterSell(c, size, price) ==
    c + GetOperationCost(size, price) - GetCommission(size, price)

CashAfter(o, c, price) ==
    IF o.side = "BUY" THEN CashAfterBuy(c, o.size, price)
    ELSE CashAfterSell(c, o.size, price)

PositionAfter(o, pos, price) ==
    IF o.side = "BUY" THEN [size |-> pos.size + o.size, price |-> price]
    ELSE IF pos.size - o.size = 0 THEN NoPosition
    ELSE [size |-> pos.size - o.size, price |-> pos.price]

\* a fill booked on the bar the order was created on
ResolveBackdated(ord, c, price, n) ==
    IF CashAfter(ord, c, ord.cprice) < 0
    THEN [ord EXCEPT !.status = "Margin"]
    ELSE IF CashAfter(ord, c, price) < 0
    THEN [ord EXCEPT !.status = "Margin"]
    ELSE [ord EXCEPT !.status = "Completed", !.ebar = ord.cbar,
                     !.eprice = price]

\* broker.next() for one submitted order when bar n arrives with open o:
\* check_submit pseudo-executes it at its creation price, then the market
\* order executes at that price (the open); either step failing for cash
\* gives Margin
Resolve(ord, c, price, n) ==
    IF CashAfter(ord, c, ord.cprice) < 0
    THEN [ord EXCEPT !.status = "Margin"]
    ELSE IF CashAfter(ord, c, price) < 0
    THEN [ord EXCEPT !.status = "Margin"]
    ELSE [ord EXCEPT !.status = "Completed", !.ebar = n, !.eprice = price]

Pending == { k \in 1 .. Len(orders) : orders[k].status = "Submitted" }

\* broker.getvalue(): cash plus the position at the current close
GetValue(c, pos, price) == c + pos.size * price * CommDen

\* ---- strategy ----
\* a size rounded up instead of down
SizeUp(equity, price) ==
    IntTrunc(equity * params.pctNum, PctDen * CommDen * price) + 1

\* a size that is never less than one share
SizeAtLeastOne(equity, price) ==
    Max(1, IntTrunc(equity * params.pctNum, PctDen * CommDen * price))

\* size = int((equity * percent) / price)
Size(equity, price) ==
    IntTrunc(equity * params.pctNum, PctDen * CommDen * price)

\* the first guard written with "or" in place of "and"
CanBuyOr(pos, cross) == pos.size = 0 \/ (cross.def /\ cross.num > 0)

\* not self.position and self.crossover > 0
CanBuy(pos, cross) == pos.size = 0 /\ cross.def /\ cross.num > 0

\* self.position and self.crossover < 0
CanSell(pos, cross) == pos.size # 0 /\ cross.def /\ cross.num < 0

NewOrder(side, size, n, price) ==
    [side |-> side, size |-> size, cbar |-> n, cprice |-> price,
     status |-> "Submitted", ebar |-> 0, eprice |-> 0]

NBars == Len(close)
Price == close[NBars]
Cross == crossover[NBars]

\* ---- the data feed ----
FreeFeed == [free |-> TRUE, closes |-> << >>]
Scripted(closes) == [free |-> FALSE, closes |-> closes]

\* whether the feed holds another bar, and the closes and opens it can have
MoreBars ==
    IF feed.free THEN NBars < MaxBars ELSE NBars < Len(feed.closes)
NextCloses == IF feed.free THEN Closes ELSE { feed.closes[NBars + 1] }
\* (a given feed gives closes only: a bar opens at the previous close or
\* at its own)
NextOpens(c) ==
    IF feed.free THEN Opens
    ELSE { IF NBars = 0 THEN Max(c, 1) ELSE Max(Price, 1), Max(c, 1) }
Exhausted == feed.free \/ NBars = Len(feed.closes)

\* ---- the run ----
Init ==
    /\ \E p \in Periods, f \in PctNums :
          params = [pfast |-> p[1], pslow |-> p[2], pctNum |-> f]
    /\ \E c \in Cashes, r \in CommNums :
          /\ Affordable(c) \/ r = 0
          /\ startcash = c
          /\ commNum = r
    /\ feed = FreeFeed
    /\ close = << >>
    /\ open = 0
    /\ smaFast = << >>
    /\ smaSlow = << >>
    /\ nzd = << >>
    /\ crossover = << >>
    /\ cash = startcash * CommDen
    /\ value = startcash * CommDen
    /\ position = NoPosition
    /\ orders = << >>
    /\ equityCurve = << >>
    /\ pc = "advance"
    /\ err = "none"

\* cerebro's loop: the data delivers its next bar, the indicator lines get
\* their value for it, and broker.next() resolves the submitted orders
Advance ==
    /\ pc = "advance"
    /\ MoreBars
    /\ \E c \in NextCloses : \E o \in NextOpens(c) :
        LET closes2 == Append(close, c)
            n == Len(closes2)
            f == SMA(params.pfast, closes2)
            s == SMA(params.pslow, closes2)
            prevNzd == IF n = 1 THEN NaN ELSE nzd[n - 1]
            k == CHOOSE j \in Pending : TRUE
            res == Resolve(orders[k], cash, o, n)
            done == Pending # {} /\ res.status = "Completed"
            cash2 == IF done THEN CashAfter(res, cash, o) ELSE cash
            pos2 == IF done THEN PositionAfter(res, position, o) ELSE position
        IN  /\ close' = closes2
            /\ open' = o
            /\ smaFast' = Append(smaFast, f)
            /\ smaSlow' = Append(smaSlow, s)
            /\ nzd' = Append(nzd, NonZeroDifference(f, s, prevNzd))
            /\ crossover' = Append(crossover, CrossOver(f, s, prevNzd))
            /\ orders' = IF Pending = {} THEN orders
                         ELSE [orders EXCEPT ![k] = res]
            /\ cash' = cash2
            /\ position' = pos2
            /\ value' = GetValue(cash2, pos2, c)
    /\ pc' = "strategy"
    /\ UNCHANGED << params, commNum, startcash, feed, equityCurve, err >>

\* before the minimum period the strategy's prenext() does nothing
Prenext ==
    /\ pc = "strategy"
    /\ NBars < MinPeriod
    /\ equityCurve' = Append(equityCurve, value)
    /\ pc' = "advance"
    /\ UNCHANGED << params, commNum, startcash, feed, close, open, smaFast,
                    smaSlow, nzd, crossover, cash, value, position, orders, err >>

\* next(): the division by a zero close raises ZeroDivisionError
NextRaise ==
    /\ pc = "strategy"
    /\ NBars >= MinPeriod
    /\ Price = 0
    /\ pc' = "error"
    /\ err' = "ZeroDivisionError"
    /\ UNCHANGED << params, commNum, startcash, feed, close, open, smaFast,
                    smaSlow, nzd, crossover, cash, value, position, orders, equityCurve >>

NextBuy ==
    /\ pc = "strategy"
    /\ NBars >= MinPeriod
    /\ Price # 0
    /\ CanBuy(position, Cross)
    /\ Size(value, Price) > 0
    /\ orders' = Append(orders, NewOrder("BUY", Size(value, Price), NBars, Price))
    /\ equityCurve' = Append(equityCurve, value)
    /\ pc' = "advance"
    /\ UNCHANGED << params, commNum, startcash, feed, close, open, smaFast,
                    smaSlow, nzd, crossover, cash, value, position, err >>

NextSell ==
    /\ pc = "strategy"
    /\ NBars >= MinPeriod
    /\ Price # 0
    /\ ~CanBuy(position, Cross)
    /\ CanSell(position, Cross)
    /\ orders' = Append(orders, NewOrder("SELL", position.size, NBars, Price))
    /\ equityCurve' = Append(equityCurve, value)
    /\ pc' = "advance"
    /\ UNCHANGED << params, commNum, startcash, feed, close, open, smaFast,
                    smaSlow, nzd, crossover, cash, value, position, err >>

NextIdle ==
    /\ pc = "strategy"
    /\ NBars >= MinPeriod
    /\ Price # 0
    /\ IF CanBuy(position, Cross) THEN Size(value, Price) <= 0
       ELSE ~CanSell(position, Cross)
    /\ equityCurve' = Append(equityCurve, value)
    /\ pc' = "advance"
    /\ UNCHANGED << params, commNum, startcash, feed, close, open, smaFast,
                    smaSlow, nzd, crossover, cash, value, position, orders, err >>

\* the data is exhausted: cerebro.run() returns
Stop ==
    /\ pc = "advance"
    /\ Exhausted
    /\ pc' = "done"
    /\ UNCHANGED << params, commNum, startcash, feed, close, open, smaFast,
                    smaSlow, nzd, crossover, cash, value, position, orders, equityCurve, err >>

Next ==
    \/ Advance
    \/ Prenext
    \/ NextRaise
    \/ NextBuy
    \/ NextSell
    \/ NextIdle
    \/ Stop

Spec == Init /\ [][Next]_vars

\* ---- runs over given feeds ----
Flat(n, v) == [i \in 1 .. n |-> v]
Ramp(n, from) == [i \in 1 .. n |-> from + i]

\* ten bars at 10, then 11, 12, ..., 40
RisingFeed == Flat(10, 10) \o Ramp(30, 10)
\* a dip below the flat start, a rise through it and a fall back
DipFeed == Flat(5, 10) \o << 9, 8, 10, 12, 13, 11, 8, 6, 6 >>
\* a zero close after the warm-up
ZeroFeed == Flat(6, 10) \o << 0 >>

Feeds == { Scripted(RisingFeed), Scripted(DipFeed), Scripted(ZeroFeed) }

\* pfast=2, pslow=5, cash 1000, fraction 1.0, commission 0
InitGiven ==
    /\ params = [pfast |-> 2, pslow |-> 5, pctNum |-> PctDen]
    /\ commNum = 0
    /\ startcash = 1000
    /\ feed \in Feeds
    /\ close = << >>
    /\ open = 0
    /\ smaFast = << >>
    /\ smaSlow = << >>
    /\ nzd = << >>
    /\ crossover = << >>
    /\ cash = startcash * CommDen
    /\ value = startcash * CommDen
    /\ position = NoPosition
    /\ orders = << >>
    /\ equityCurve = << >>
    /\ pc = "advance"
    /\ err = "none"

GivenSpec == InitGiven /\ [][Next]_vars

\* ---- properties ----
LastOrder(os) == os[Len(os)]
Emitted == Len(orders') = Len(orders) + 1
Completed(k) == orders[k].status = "Completed"

\* C1: a BUY is only ever emitted on a bar where the position is flat, a
\* SELL only on a bar where it is long; a BUY fills only into a flat position
\* and no position is ever negative, so at most one position is open.
C1_OnePosition ==
    [][ /\ (Emitted /\ LastOrder(orders').side = "BUY") => position.size = 0
        /\ (Emitted /\ LastOrder(orders').side = "SELL") => position.size > 0
        /\ (position'.size > position.size) => position.size = 0
        /\ position'.size >= 0 ]_vars

\* a BUY was filled and the SELL closing it was emitted and filled
C1_Witness ==
    \E j, k \in 1 .. Len(orders) :
        /\ j < k
        /\ orders[j].side = "BUY" /\ Completed(j)
        /\ orders[k].side = "SELL" /\ Completed(k)

RECURSIVE RollingSum(_, _, _)
RollingSum(c, period, i) ==
    IF i = 0 THEN 0
    ELSE RollingSum(c, period, i - 1) + c[i]
         - (IF i > period THEN c[i - period] ELSE 0)

SmaIsMean(line, period) ==
    \A i \in 1 .. Len(line) :
        IF i < period THEN ~line[i].def
        ELSE /\ line[i].def
             /\ line[i].den = period
             /\ line[i].num = RollingSum(close, period, i)

\* C3: an average of period N is undefined on the first N - 1 bars and from
\* the N-th bar on is the mean of the last N closes: its numerator over N is
\* what a rolling sum over the window gives, on every bar.
C3_SmaIsMean ==
    /\ Len(smaFast) = NBars /\ Len(smaSlow) = NBars
    /\ SmaIsMean(smaFast, params.pfast)
    /\ SmaIsMean(smaSlow, params.pslow)

\* the slow window has moved: a close different from the new one was evicted
C3_Witness ==
    /\ NBars > params.pslow
    /\ smaSlow[NBars].def
    /\ close[NBars] # close[NBars - params.pslow]
    /\ smaSlow[NBars].num # smaSlow[NBars - 1].num

\* every bar delivered so far has a positive close (opens always are)
ValidBars == \A j \in 1 .. NBars : close[j] > 0

\* fast - slow on bar i (scaled), for a bar where both averages exist
D(i) == Diff(smaFast[i], smaSlow[i])
BothDefined(i) == smaFast[i].def /\ smaSlow[i].def
Signals == { i \in 2 .. NBars : BothDefined(i - 1) /\ BothDefined(i) }

\* the last non-zero difference on the bars up to i, 0 when there is none
RECURSIVE LastNonZero(_)
LastNonZero(i) ==
    IF i = 0 \/ ~BothDefined(i) THEN 0
    ELSE IF D(i) # 0 THEN D(i)
    ELSE LastNonZero(i - 1)

CrossOnlyOnSignChange(i) ==
    /\ crossover[i].def
    /\ crossover[i].num \in { -1, 0, 1 }
    /\ crossover[i].num = 1 => (D(i - 1) <= 0 /\ D(i) > 0)
    /\ crossover[i].num = -1 => (D(i - 1) >= 0 /\ D(i) < 0)
    /\ D(i) = 0 => crossover[i].num = 0

RECURSIVE Flow(_)
Flow(k) ==
    IF k = 0 THEN 0
    ELSE Flow(k - 1)
         + (IF ~Completed(k) THEN 0
            ELSE IF orders[k].side = "BUY"
            THEN -(orders[k].size * orders[k].eprice * (CommDen + commNum))
            ELSE orders[k].size * orders[k].eprice * (CommDen - commNum))

Fills == { k \in 1 .. Len(orders) : Completed(k) }
LastFill == CHOOSE k \in Fills : \A j \in Fills : j <= k
PrevFill(k) == CHOOSE i \in Fills : i < k /\ \A j \in Fills : j < k => j <= i

\* C5: every filled BUY of size at price takes exactly size * price * (1 + r)
\* from the cash and leaves the position {size, price}; the SELL that follows
\* it is for the same size, adds exactly size * price2 * (1 - r) and leaves
\* no position. (In every state the cash is the starting cash plus these
\* flows, so each fill changes it by exactly its own flow.)
C5_CommissionAccounting ==
    /\ cash = startcash * CommDen + Flow(Len(orders))
    /\ Fills = {} => position = NoPosition
    /\ Fills # {} =>
          IF orders[LastFill].side = "BUY"
          THEN position = [size |-> orders[LastFill].size,
                           price |-> orders[LastFill].eprice]
          ELSE position.size = 0
    /\ \A k \in Fills :
          orders[k].side = "SELL" =>
              /\ \E i \in Fills : i < k
              /\ orders[PrevFill(k)].side = "BUY"
              /\ orders[PrevFill(k)].size = orders[k].size

\* a BUY and its SELL were filled under a non-zero commission, at different
\* prices
C5_Witness ==
    /\ commNum > 0
    /\ \E k \in Fills :
          /\ orders[k].side = "SELL"
          /\ \E i \in Fills : i < k /\ orders[i].eprice # orders[k].eprice

\* C6 as stated: the size of every BUY is floor(equity * fraction / price)
\* for the equity and the close of its bar, and on a close <= 0 the sizer
\* gives 0 (no order) without raising.
C6_SizerFloorNoRaise ==
    /\ \A k \in 1 .. Len(orders) :
          orders[k].side = "BUY" =>
              LET e == equityCurve[orders[k].cbar]
                  unit == orders[k].cprice * PctDen * CommDen
              IN  /\ orders[k].size * unit <= e * params.pctNum
                  /\ e * params.pctNum < (orders[k].size + 1) * unit
    /\ \A i \in 1 .. NBars :
          (i >= MinPeriod /\ close[i] <= 0) =>
              /\ err = "none"
              /\ \A k \in 1 .. Len(orders) : orders[k].cbar # i

\* C7 as stated: an order created on bar N is filled within bar N, at bar
\* N's close, and the fill shows in bar N's equity point.
C7_SameBarFill ==
    ValidBars =>
        \A k \in Fills :
            /\ orders[k].ebar = orders[k].cbar
            /\ orders[k].eprice = close[orders[k].cbar]

\* the configuration the specification calls valid
ValidConfig ==
    /\ params.pfast > 0 /\ params.pslow > 0
    /\ params.pctNum > 0 /\ params.pctNum <= PctDen
    /\ commNum >= 0 /\ commNum < CommDen
    /\ startcash > 0

Buys == { k \in 1 .. Len(orders) : orders[k].side = "BUY" }

\* size * close * (1 + r) <= the cash the order was sized with (the position
\* is flat when a BUY is sized, so the equity of its bar is the cash)
Covered(k) ==
    orders[k].size * orders[k].cprice * (CommDen + commNum)
        <= equityCurve[orders[k].cbar]

\* fraction * (1 + r) <= 1
FractionCoversCommission ==
    params.pctNum * (CommDen + commNum) <= PctDen * CommDen

\* C8 as stated: under a valid configuration every BUY satisfies
\* size * close * (1 + r) <= cash and none is refused for insufficient funds.
C8_NeverInsufficientFunds ==
    (ValidConfig /\ ValidBars) =>
        \A k \in Buys : Covered(k) /\ orders[k].status # "Margin"

\* C8 amended: under a valid configuration with fraction * (1 + r) <= 1
\* every BUY satisfies size * close * (1 + r) <= cash, and is refused for
\* insufficient funds only when the bar it is filled on opens above the
\* close it was sized with.
C8_CoveredAtSizingPrice ==
    (ValidConfig /\ FractionCoversCommission) =>
        \A k \in Buys :
            /\ Covered(k)
            /\ (orders[k].status = "Margin" /\ orders[k].cbar = NBars - 1)
                  => open > orders[k].cprice

\* under a valid configuration with a commission, a BUY the cash covered at
\* the close it was sized with was refused on a bar that opened higher
C8_Witness ==
    /\ ValidConfig /\ FractionCoversCommission /\ commNum > 0
    /\ \E k \in Buys :
          /\ Covered(k)
          /\ orders[k].status = "Margin"
          /\ orders[k].cbar = NBars - 1
          /\ open > orders[k].cprice

\* C9 as stated: a BUY the cash cannot cover ends the run with
\* INSUFFICIENT_FUNDS; it is not dropped silently.
C9_FailsLoudly ==
    (ValidConfig /\ ValidBars) =>
        \A k \in 1 .. Len(orders) :
            orders[k].status = "Margin" =>
                pc = "error" /\ err = "INSUFFICIENT_FUNDS"

\* C10 as stated: under an invalid configuration no bar is processed, no
\* order is emitted and no equity point is recorded.
C10_ConfigRejected ==
    ~ValidConfig =>
        /\ NBars = 0
        /\ orders = << >>
        /\ equityCurve = << >>

\* the first bar with a non-positive close, NBars + 1 when there is none
FirstInvalid ==
    IF ValidBars THEN NBars + 1
    ELSE CHOOSE j \in 1 .. NBars :
             close[j] <= 0 /\ \A i \in 1 .. j - 1 : close[i] > 0

\* C11 as stated: a run over a sequence holding a bar with a non-positive
\* price never reports a result (it does not reach its end), fails with
\* INVALID_BAR if it fails, and fills no order at or after the invalid bar.
C11_InvalidBarAborts ==
    ~ValidBars =>
        /\ pc # "done"
        /\ pc = "error" => err = "INVALID_BAR"
        /\ \A k \in Fills : orders[k].ebar < FirstInvalid

\* s is kept as it is at the front of t
IsPrefix(s, t) ==
    /\ Len(s) <= Len(t)
    /\ \A i \in 1 .. Len(s) : t[i] = s[i]

\* C13: nothing recorded for the bars 1 .. N depends on a later bar. Bars
\* are delivered one at a time; every step keeps the closes, the signals, the
\* equity points and the filled orders recorded so far as they are, a new
\* order carries the current bar and its close, and a new fill carries the
\* current bar and its open: so two feeds that agree on their first N bars
\* give the same signals, orders, fills and equity points for those bars.
C13_NoLookahead ==
    [][ /\ IsPrefix(close, close')
        /\ IsPrefix(crossover, crossover')
        /\ IsPrefix(equityCurve, equityCurve')
        /\ Len(orders) <= Len(orders')
        /\ \A k \in 1 .. Len(orders) :
              /\ orders'[k].side = orders[k].side
              /\ orders'[k].size = orders[k].size
              /\ orders'[k].cbar = orders[k].cbar
              /\ orders'[k].cprice = orders[k].cprice
              /\ orders[k].status # "Submitted" => orders'[k] = orders[k]
        /\ \A k \in 1 .. Len(orders') :
              (k > Len(orders) \/ orders[k].status = "Submitted") =>
                  /\ orders'[k].cbar <= Len(close')
                  /\ k > Len(orders) =>
                        /\ orders'[k].cbar = NBars
                        /\ orders'[k].cprice = close[NBars]
                        /\ orders'[k].status = "Submitted"
                  /\ orders'[k].status = "Completed" =>
                        /\ orders'[k].ebar = Len(close')
                        /\ orders'[k].eprice = open' ]_vars

\* a fill and the equity point of its bar were recorded, and a later bar
\* was processed after them
C13_Witness ==
    \E k \in Fills :
        /\ orders[k].ebar + 1 <= NBars
        /\ Len(equityCurve) = NBars

OnRisingFeed == feed = Scripted(RisingFeed)

BarDone == NBars > 0 /\ pc \in { "advance", "done" }

\* C15 as stated: on a bar where the position is long and the signal is
\* CROSS_DOWN one SELL for the whole position is emitted, and after that bar
\* the position is 0.
C15_SellClosesWithinBar ==
    (ValidConfig /\ ValidBars /\ BarDone) =>
        \A k \in 1 .. Len(orders) :
            (orders[k].side = "SELL" /\ orders[k].cbar = NBars) =>
                /\ crossover[NBars].num = -1
                /\ Completed(k)
                /\ position.size = 0

\* the strategy is about to decide on the current bar
Deciding == pc = "strategy" /\ NBars > 0 /\ Price > 0

\* fewer than one share: equity * fraction < price
SizeIsZero == value * params.pctNum < PctDen * CommDen * Price

\* FLAT + CROSS_UP with a size of at least one, or LONG + CROSS_DOWN
TradeCase ==
    \/ position.size = 0 /\ Cross.num = 1 /\ ~SizeIsZero
    \/ position.size > 0 /\ Cross.num = -1

NoSignal(i) == ~crossover[i].def \/ crossover[i].num = 0

\* the first bar on which both averages exist
FirstDefined(i) == BothDefined(i) /\ (i = 1 \/ ~BothDefined(i - 1))

\* C17: while either average is undefined the detector gives no signal and
\* holds no sign; on the first bar where both exist it records the difference
\* and gives no signal; so no signal and no order falls on the first pslow
\* bars.
C17_WarmUpSilent ==
    /\ \A i \in 1 .. NBars :
          /\ ~BothDefined(i) => NoSignal(i) /\ ~nzd[i].def
          /\ FirstDefined(i) =>
                NoSignal(i) /\ nzd[i].def /\ nzd[i].num = D(i)
          /\ i <= params.pslow => NoSignal(i)
    /\ \A k \in 1 .. Len(orders) : orders[k].cbar > params.pslow

\* the averages started apart (a sign was recorded with no signal) and an
\* order was created on a later bar
C17_Witness ==
    /\ NBars > params.pslow
    /\ FirstDefined(params.pslow)
    /\ D(params.pslow) # 0
    /\ NoSignal(params.pslow)
    /\ orders # << >>

\* the equity of the current bar once order k has been executed at the close
PostTradeEquity(k) ==
    GetValue(CashAfter(orders[k], cash, Price),
             PositionAfter(orders[k], position, Price), Price)

\* C18 as stated: after k bars the equity curve has k points, and the point
\* of a bar is cash + position.size * close computed after the order of that
\* bar was executed.
C18_PointsArePostTrade ==
    (BarDone /\ err = "none" /\ ValidConfig /\ ValidBars) =>
        /\ Len(equityCurve) = NBars
        /\ \A k \in 1 .. Len(orders) :
              orders[k].cbar = NBars =>
                  equityCurve[NBars] = PostTradeEquity(k)

\* order k is executed by this step
FilledNow(k) ==
    /\ k \in 1 .. Len(orders)
    /\ orders[k].status = "Submitted"
    /\ orders'[k].status = "Completed"

\* C19: cash and the position size are never negative, and the execution of
\* an order at price p changes the equity valued at p by exactly minus the
\* commission charged on it.
C19_EquityDropsByCommission ==
    /\ cash >= 0 /\ position.size >= 0
    /\ [][ /\ cash' >= 0
           /\ position'.size >= 0
           /\ \A k \in 1 .. Len(orders) :
                 FilledNow(k) =>
                     GetValue(cash', position', open')
                       - GetValue(cash, position, open')
                     = - GetCommission(orders[k].size, open') ]_vars

\* a BUY and then a SELL have been executed under a commission, the SELL on
\* the current bar
C19_Witness ==
    /\ commNum > 0
    /\ pc = "strategy"
    /\ \E k \in 2 .. Len(orders) :
          /\ Completed(k - 1) /\ orders[k - 1].side = "BUY"
          /\ Completed(k) /\ orders[k].side = "SELL"
          /\ orders[k].ebar = NBars
    /\ position.size = 0

\* the bars that carry a CROSS_UP or a CROSS_DOWN
SignalBars == { i \in 1 .. NBars : crossover[i].def /\ crossover[i].num # 0 }

\* C20: of two signals with no signal between them one is a CROSS_UP and the
\* other a CROSS_DOWN, also when fast - slow touches zero and comes back; the
\* executed orders alternate BUY, SELL, BUY, ... from a BUY, and a SELL has the
\* size of the BUY executed before it.
C20_SignalsAndTradesAlternate ==
    /\ \A i, j \in SignalBars :
          (i < j /\ \A m \in SignalBars : ~(i < m /\ m < j)) =>
              crossover[i].num = - crossover[j].num
    /\ \A k \in Fills :
          IF \A j \in Fills : j >= k
          THEN orders[k].side = "BUY"
          ELSE /\ orders[PrevFill(k)].side # orders[k].side
               /\ orders[k].side = "SELL" =>
                     orders[k].size = orders[PrevFill(k)].size

\* after a CROSS_UP, whose BUY was executed, fast - slow went from positive
\* to zero and back to positive and the return gave no second CROSS_UP
C20_Witness ==
    /\ NBars >= 3
    /\ BothDefined(NBars - 2)
    /\ D(NBars - 2) > 0 /\ D(NBars - 1) = 0 /\ D(NBars) > 0
    /\ NoSignal(NBars)
    /\ \E i \in SignalBars : crossover[i].num = 1
    /\ \E k \in Fills : orders[k].side = "BUY"

====
